---- MODULE Spec2Model ----
(***************************************************************************)
(* Model of CRON_Flipkart_Reviews_Sentiment_Analysis_using_MLFlow_Prefect  *)
(* .py: the five tasks load_data, input_output, split_train_test,          *)
(* train_model, evaluate_model and the flow that sequences them.           *)
(*                                                                         *)
(* Representation.                                                         *)
(*  - A string that matters character by character (a column name) is a    *)
(*    sequence of tokens: " " and "\t" are single whitespace characters,   *)
(*    every other token is a run of non-whitespace characters.             *)
(*  - A cell is <<>> for NaN (missing), <<"s", v>> for the string v and    *)
(*    <<"n", v>> for the number v.                                         *)
(*  - A table is [columns, index, data]: data[i] is the row whose pandas   *)
(*    index label is index[i]; index labels are 0-based as in pandas.      *)
(*  - A Series is a sequence of [idx, v]: the index label and the value.   *)
(***************************************************************************)
EXTENDS Integers, Sequences, FiniteSets, TLC

VARIABLES
    file,            \* the CSV file at data_path, as it is on disk
    pc,              \* position of the current flow run
    df,              \* result of load_data
    xy,              \* result of input_output
    parts,           \* result of split_train_test
    model,           \* result of train_model
    scores,          \* result of evaluate_model
    out,             \* lines printed by the flow run
    steps,           \* tasks started by the current flow run, in order
    cache,           \* keys stored under the joblib directory '.cache'
    fitLog,          \* keys for which the vectorizer was really fitted
    cacheHits,       \* fit requests served from the cache
    fitRows,         \* index labels handed to a fit in the current run
    holdoutReaders,  \* tasks that were handed X_test / y_test
    runs,            \* flow runs started so far
    globalRng,       \* state of numpy's process-wide RandomState
    pinned,          \* an earlier direct call of split_train_test
    last,            \* the latest direct call of split_train_test
    nCalls,          \* direct calls of a task made so far
    unit             \* the latest direct call of train_model

vars == <<file, pc, df, xy, parts, model, scores, out, steps, cache, fitLog,
          cacheHits, fitRows, holdoutReaders, runs, globalRng, pinned, last, nCalls, unit>>

----------------------------------------------------------------------------
(* Bounds *)

MaxRows == 5        \* rows of a file given to load_data on its own
MaxFileRows == 6    \* rows of the file a flow run reads
MaxRuns == 2        \* flow runs the schedule starts
MaxCalls == 3       \* direct calls of split_train_test
MaxSplitRows == 3   \* rows given to a direct call of split_train_test
MaxTrainRows == 4   \* rows given to a direct call of train_model
MaxTrainCalls == 2  \* direct calls of train_model

----------------------------------------------------------------------------
(* Generic helpers *)

SeqsUpTo(S, n) == UNION {[1..k -> S] : k \in 0..n}

Range(s) == {s[i] : i \in 1..Len(s)}

RECURSIVE SelectIdx(_, _, _)
\* positions i of 1..n, ascending, for which keep[i]
SelectIdx(keep, i, n) ==
    IF i > n THEN <<>>
    ELSE IF keep[i] THEN <<i>> \o SelectIdx(keep, i + 1, n)
    ELSE SelectIdx(keep, i + 1, n)

NaN == <<>>
IsNa(c) == c = NaN
Str(v) == <<"s", v>>
Num(v) == <<"n", v>>
Val(c) == c[2]

None == "None"

----------------------------------------------------------------------------
(* load_data *)

Whitespace == {" ", "\t"}

RECURSIVE lstrip(_)
lstrip(s) ==
    IF s # <<>> /\ Head(s) \in Whitespace THEN lstrip(Tail(s)) ELSE s

RECURSIVE rstrip(_)
rstrip(s) ==
    IF s # <<>> /\ s[Len(s)] \in Whitespace
    THEN rstrip(SubSeq(s, 1, Len(s) - 1)) ELSE s

\* str.strip(): leading and trailing whitespace removed
strip(s) == rstrip(lstrip(s))

\* str.replace(old, new) on single characters
replace(s, old, new) == [i \in 1..Len(s) |-> IF s[i] = old THEN new ELSE s[i]]

\* line 47: col.strip().replace(' ', '_')
NormalizeColumn(col) == replace(strip(col), " ", "_")

\* position of the column called name, 0 when there is none
ColPos(columns, name) ==
    IF \E i \in 1..Len(columns) : columns[i] = name
    THEN CHOOSE i \in 1..Len(columns) : columns[i] = name
    ELSE 0

\* comparisons of a float cell with a number: every comparison with NaN is False
GE(c, k) == ~IsNa(c) /\ Val(c) >= k
LE(c, k) == ~IsNa(c) /\ Val(c) <= k

\* np.select(condlist, choicelist, default=0) at one position
np_select(condlist, choicelist, default) ==
    IF \E i \in 1..Len(condlist) : condlist[i]
    THEN choicelist[CHOOSE i \in 1..Len(condlist) :
                        condlist[i] /\ \A j \in 1..(i - 1) : ~condlist[j]]
    ELSE default

\* variant: the threshold one too low
RatingLabelMutant(c) == np_select(<<GE(c, 3), LE(c, 2)>>, <<1, 0>>, 0)

\* line 49: np.select([(Ratings >= 4), (Ratings <= 3)], [1, 0])
RatingLabel(c) == np_select(<<GE(c, 4), LE(c, 3)>>, <<1, 0>>, 0)

\* pd.read_csv: RangeIndex 0..n-1, column names as written in the header
read_csv(f) ==
    [columns |-> f.columns,
     index   |-> [i \in 1..Len(f.data) |-> i - 1],
     data    |-> f.data]

\* df.replace('', np.nan)
replace_empty(t) ==
    [t EXCEPT !.data = [i \in 1..Len(t.data) |->
        [j \in 1..Len(t.data[i]) |->
            IF t.data[i][j] = Str("") THEN NaN ELSE t.data[i][j]]]]

\* variant: dropna(how='all'), a row goes only when all its cells are NaN
RowKeptMutant(row) == \E j \in 1..Len(row) : ~IsNa(row[j])

\* dropna() keeps a row when none of its cells is NaN
RowKept(row) == \A j \in 1..Len(row) : ~IsNa(row[j])

\* df.dropna(): rows keep their index label and their relative order
dropna(t) ==
    LET keep == [i \in 1..Len(t.data) |-> RowKept(t.data[i])]
        sel  == SelectIdx(keep, 1, Len(t.data))
    IN  [columns |-> t.columns,
         index   |-> [k \in 1..Len(sel) |-> t.index[sel[k]]],
         data    |-> [k \in 1..Len(sel) |-> t.data[sel[k]]]]

Failure(e) == [ok |-> FALSE, err |-> e]

load_data(f) ==
    IF ~f.readable THEN Failure("FileNotFoundError")
    ELSE
    LET t0   == read_csv(f)
        cols == [i \in 1..Len(t0.columns) |-> NormalizeColumn(t0.columns[i])]
        r    == ColPos(cols, <<"Ratings">>)
    IN  IF r = 0 THEN Failure("KeyError")
        ELSE
        LET t1 == [columns |-> cols,
                   index   |-> t0.index,
                   data    |-> [i \in 1..Len(t0.data) |->
                                  [t0.data[i] EXCEPT ![r] =
                                      Num(RatingLabel(t0.data[i][r]))]]]
        IN  [ok |-> TRUE, err |-> None, df |-> dropna(replace_empty(t1))]

----------------------------------------------------------------------------
(* Input files of the load_data check *)

Headers == {<<<<"Review", " ", "text">>, <<"Ratings">>>>,
            <<<<" ", "Review", "_", "text", "\t">>, <<"\t", "Ratings", " ">>>>,
            <<<<"Review", "\t", "text", " ">>, <<"Rating", " ", "s">>>>}

RowDomain == {<<Str("good"), r>> : r \in {NaN, Num(2), Num(3), Num(4), Num(5)}}
             \cup {<<NaN, Num(4)>>}

LoadFiles == {[readable |-> TRUE, columns |-> h, data |-> d] :
                 h \in Headers, d \in SeqsUpTo(RowDomain, MaxRows)}

----------------------------------------------------------------------------
(* input_output *)

\* data[name]: the column as a Series, index labels kept
Column(t, name) ==
    LET p == ColPos(t.columns, name)
    IN  [i \in 1..Len(t.data) |-> [idx |-> t.index[i], v |-> Val(t.data[i][p])]]

input_output(data, input, output) ==
    IF ColPos(data.columns, input) = 0 \/ ColPos(data.columns, output) = 0
    THEN Failure("KeyError")
    ELSE [ok |-> TRUE, err |-> None,
          X |-> Column(data, input), y |-> Column(data, output)]

----------------------------------------------------------------------------
(* split_train_test: sklearn's train_test_split as the task calls it        *)
(* (train_size=None, shuffle=True, stratify=None).                          *)
(* A test_size is [kind |-> "f", c |-> hundredths] for a float and          *)
(* [kind |-> "i", c |-> count] for an int; a random_state is <<>> for None  *)
(* and <<seed>> for an int.                                                 *)

Float(c) == [kind |-> "f", c |-> c]
Int_(c) == [kind |-> "i", c |-> c]

\* defaults of the task's signature, line 69
DefaultTestSize == Float(25)
DefaultRandomState == 42

\* One step of the generator. numpy's Mersenne Twister is stood in for by a
\* small linear congruential generator: what the model keeps is that the
\* stream is a function of the generator's state alone.
RngNext(s) == (s * 75 + 74) % 65537

\* RandomState(seed)
RandomState(seed) == seed % 65537

RECURSIVE Shuffle(_, _, _)
\* Fisher-Yates as in RandomState.shuffle: for i = n-1 .. 1, swap with a drawn j <= i
Shuffle(p, i, s) ==
    IF i <= 1 THEN [perm |-> p, rng |-> s]
    ELSE LET s1 == RngNext(s)
             j  == (s1 % i) + 1
         IN  Shuffle([p EXCEPT ![i] = p[j], ![j] = p[i]], i - 1, s1)

\* rng.permutation(n): a permutation of the positions 1..n, and the state after
permutation(n, s) == Shuffle([k \in 1..n |-> k], n, s)

\* variant: the seed is ignored and the process-wide generator used
SplitRngMutant(random_state, global) == global

\* check_random_state: None is the process-wide generator, an int seeds a new one
SplitRng(random_state, global) ==
    IF random_state = <<>> THEN global ELSE RandomState(random_state[1])

\* variant: a float test_size of 0.0 passes the range check
TestSizeInvalidMutant(ts, n) ==
    \/ ts.kind = "i" /\ (ts.c >= n \/ ts.c <= 0)
    \/ ts.kind = "f" /\ (ts.c < 0 \/ ts.c >= 100)

\* _validate_shuffle_split: the range check of test_size
TestSizeInvalid(ts, n) ==
    \/ ts.kind = "i" /\ (ts.c >= n \/ ts.c <= 0)
    \/ ts.kind = "f" /\ (ts.c <= 0 \/ ts.c >= 100)

\* n_test: ceil(test_size * n_samples) for a float, test_size itself for an int
NTest(ts, n) == IF ts.kind = "f" THEN (ts.c * n + 99) \div 100 ELSE ts.c

\* variant: the training part is cut from the start of the permutation
TrainPositionsMutant(perm, n_test, n_train) == SubSeq(perm, 1, n_train)

\* ShuffleSplit: ind_train = permutation[n_test:(n_test + n_train)]
TrainPositions(perm, n_test, n_train) == SubSeq(perm, n_test + 1, n_test + n_train)

\* ShuffleSplit: ind_test = permutation[:n_test]
TestPositions(perm, n_test) == SubSeq(perm, 1, n_test)

Take(a, pos) == [k \in 1..Len(pos) |-> a[pos[k]]]

\* Returns the four parts and the state of the process-wide generator afterwards.
split_train_test(X, y, test_size, random_state, global) ==
    LET n == Len(X)
    IN  IF TestSizeInvalid(test_size, n)
        THEN Failure("ValueError") @@ [rng |-> global]
        ELSE
        LET n_test  == NTest(test_size, n)
            n_train == n - n_test
        IN  IF n_train = 0
            THEN Failure("ValueError") @@ [rng |-> global]
            ELSE
            LET sh    == permutation(n, SplitRng(random_state, global))
                train == TrainPositions(sh.perm, n_test, n_train)
                test  == TestPositions(sh.perm, n_test)
            IN  [ok |-> TRUE, err |-> None,
                 X_train |-> Take(X, train), X_test |-> Take(X, test),
                 y_train |-> Take(y, train), y_test |-> Take(y, test),
                 rng |-> IF random_state = <<>> THEN sh.rng ELSE global]
----------------------------------------------------------------------------
(* train_model: Pipeline(CountVectorizer, MultinomialNB) with a joblib       *)
(* Memory, fitted by GridSearchCV(scoring='f1', cv=4, refit=True).           *)

\* line 92
CV == 4

Values(series) == [i \in 1..Len(series) |-> series[i].v]
Labels_(series) == {series[i].idx : i \in 1..Len(series)}

CountOf(yv, c) == Cardinality({i \in 1..Len(yv) : yv[i] = c})

\* StratifiedKFold encodes the classes in their order of first appearance
ClassOrder(yv) ==
    IF yv = <<>> THEN <<>>
    ELSE IF \A i \in 1..Len(yv) : yv[i] = yv[1] THEN <<yv[1]>>
    ELSE <<yv[1], 1 - yv[1]>>

\* variant: the check of n_splits against the number of samples is missing
CvSplitFailsMutant(yv) ==
    Len(yv) > 0 /\ \A k \in 1..Len(ClassOrder(yv)) : CV > CountOf(yv, ClassOrder(yv)[k])

\* _BaseKFold.split: n_splits > n_samples; StratifiedKFold: n_splits greater
\* than the number of members of every class
CvSplitFails(yv) ==
    \/ CV > Len(yv)
    \/ \A k \in 1..Len(ClassOrder(yv)) : CV > CountOf(yv, ClassOrder(yv)[k])

\* places, 0-based, of class c in the sorted label vector
ClassPlaces(yv, c) ==
    LET start == IF ClassOrder(yv)[1] = c THEN 0 ELSE CountOf(yv, ClassOrder(yv)[1])
    IN  start .. (start + CountOf(yv, c) - 1)

\* StratifiedKFold._make_test_folds: fold f takes the places f, f+CV, ... of the
\* sorted label vector; the members of a class fill the folds in their order
TestFold(yv, i) ==
    LET c == yv[i]
        j == Cardinality({i2 \in 1..(i - 1) : yv[i2] = c})
        Cum(f) == Cardinality({p \in ClassPlaces(yv, c) : p % CV <= f})
    IN  CHOOSE f \in 0..(CV - 1) : j < Cum(f) /\ (f = 0 \/ j >= Cum(f - 1))

\* positions of the training part of fold f
FoldTrain(yv, f) ==
    SelectIdx([i \in 1..Len(yv) |-> TestFold(yv, i) # f], 1, Len(yv))

\* lines 125-129: the grid the flow passes
HYPERPARAMETERS == [max_features |-> <<5000>>, alpha |-> <<1>>]

\* ParameterGrid: the product, the last (sorted) name varying fastest
Candidates(h) ==
    [k \in 1..(Len(h.alpha) * Len(h.max_features)) |->
        [alpha        |-> h.alpha[((k - 1) \div Len(h.max_features)) + 1],
         max_features |-> h.max_features[((k - 1) % Len(h.max_features)) + 1]]]

\* what joblib hashes for the cached _fit_transform_one(transformer, X, y, ...)
FitKey(cand, X, y) == [params |-> [max_features |-> cand.max_features], X |-> X, y |-> y]

\* the fit requests of one GridSearchCV.fit, in order: every candidate on the
\* training part of every fold, then the refit of the best on all of X, y
FitRequests(X, y, h) ==
    LET yv    == Values(y)
        cands == Candidates(h)
        cvfit == [k \in 1..(Len(cands) * CV) |->
                    LET c  == cands[((k - 1) \div CV) + 1]
                        tr == FoldTrain(yv, (k - 1) % CV)
                    IN  FitKey(c, Take(X, tr), Take(y, tr))]
    IN  Append(cvfit, FitKey(cands[1], X, y))

\* variant: the pipeline is built without memory
CacheHitMutant(c, key) == FALSE

\* Memory(location='.cache'): a call is served from the directory when its key is there
CacheHit(c, key) == key \in c

RECURSIVE Serve(_, _, _)
\* the requests against the cache: a miss computes and stores
Serve(reqs, c, computed) ==
    IF reqs = <<>> THEN [cache |-> c, computed |-> computed]
    ELSE IF CacheHit(c, Head(reqs)) THEN Serve(Tail(reqs), c, computed)
    ELSE Serve(Tail(reqs), c \cup {Head(reqs)}, Append(computed, Head(reqs)))

NoFit(c) == [cache |-> c, computed |-> <<>>, hits |-> 0, rows |-> {}]

NoModel == [fitted |-> FALSE, params |-> [alpha |-> 0, max_features |-> 0],
            predicts |-> 0, rows |-> {}]

train_model(X_train, y_train, h, c) ==
    LET yv == Values(y_train)
    IN  IF CvSplitFails(yv)
        THEN Failure("ValueError") @@ NoFit(c)
        ELSE
        LET reqs == FitRequests(X_train, y_train, h)
            sv   == Serve(reqs, c, <<>>)
        IN  [ok |-> TRUE, err |-> None,
             \* all documents of the model are the same text, so MultinomialNB
             \* predicts the class with the larger prior (the first on a tie)
             model |-> [fitted |-> TRUE, params |-> Candidates(h)[1],
                        predicts |-> IF CountOf(yv, 1) > CountOf(yv, 0) THEN 1 ELSE 0,
                        rows |-> Labels_(X_train)],
             cache |-> sv.cache, computed |-> sv.computed,
             hits |-> Len(reqs) - Len(sv.computed),
             rows |-> UNION {Labels_(reqs[k].X) : k \in 1..Len(reqs)}]

----------------------------------------------------------------------------
(* evaluate_model *)

predict(m, X) == [i \in 1..Len(X) |-> m.predicts]

\* metrics.f1_score with pos_label=1: 2tp / (2tp + fp + fn), 0.0 when that is 0/0
f1_score(y_true, y_pred) ==
    LET tp == Cardinality({i \in 1..Len(y_true) : y_true[i] = 1 /\ y_pred[i] = 1})
        fp == Cardinality({i \in 1..Len(y_true) : y_true[i] = 0 /\ y_pred[i] = 1})
        fn == Cardinality({i \in 1..Len(y_true) : y_true[i] = 1 /\ y_pred[i] = 0})
    IN  IF 2 * tp + fp + fn = 0 THEN [num |-> 0, den |-> 1]
        ELSE [num |-> 2 * tp, den |-> 2 * tp + fp + fn]

evaluate_model(m, X_train, y_train, X_test, y_test) ==
    [train_score |-> f1_score(Values(y_train), predict(m, X_train)),
     test_score  |-> f1_score(Values(y_test), predict(m, X_test))]
----------------------------------------------------------------------------
(* The flow *)

\* lines 123-124
INPUT == <<"Review", "_", "text">>
OUTPUT == <<"Ratings">>

Order == <<"load_data", "input_output", "split_train_test", "train_model",
           "evaluate_model">>

\* variant: the flow goes on after a task that raised
ResumeMutant(ok, next) == next

\* a task that raises ends the flow run: no statement after the call runs
Resume(ok, next) == IF ok THEN next ELSE "failed"

Step(task, ok) == [task |-> task, state |-> IF ok THEN "Completed" ELSE "Failed"]

\* variant: train_model is given all of X, y
TrainInputMutant(p, all) == all

\* line 141: train_model(X_train, y_train, ...)
TrainInput(p, all) == [X |-> p.X_train, y |-> p.y_train]

NoTable == [columns |-> <<>>, index |-> <<>>, data |-> <<>>]
NoXY == [X |-> <<>>, y |-> <<>>]
NoParts == [X_train |-> <<>>, X_test |-> <<>>, y_train |-> <<>>, y_test |-> <<>>]
NoScores == [train_score |-> [num |-> 0, den |-> 1], test_score |-> [num |-> 0, den |-> 1]]
NoCall == [made |-> FALSE]

Ended == pc \in {"idle", "done", "failed"}

\* the files the flow finds at data_path
GoodHeader == <<<<"Review", " ", "text">>, <<"Ratings">>>>

WfRow(p, i) ==
    CASE p = "pos"  -> <<Str("good"), Num(5)>>
      [] p = "neg"  -> <<Str("good"), Num(2)>>
      [] p = "neg2" -> <<Str("good"), IF i = 2 THEN Num(2) ELSE Num(5)>>
      [] p = "gaps" -> IF i = 1 THEN <<NaN, Num(4)>>
                       ELSE IF i = 2 THEN <<Str("good"), NaN>>
                       ELSE <<Str("good"), Num(4)>>

Unreadable == [readable |-> FALSE, columns |-> <<>>, data |-> <<>>]

WfFiles ==
    {[readable |-> TRUE, columns |-> GoodHeader, data |-> [i \in 1..n |-> WfRow(p, i)]] :
        n \in 0..MaxFileRows, p \in {"pos", "neg", "neg2", "gaps"}}
    \cup {[readable |-> TRUE, columns |-> h, data |-> [i \in 1..2 |-> WfRow("pos", i)]] :
            h \in {<<<<"Review", "\t", "text">>, <<"Ratings">>>>,
                   <<<<"Review", " ", "text">>, <<"Rating">>>>}}
    \cup {Unreadable}

\* the cron trigger starts a flow run; a run starts with nothing of the last one
FlowRun ==
    /\ Ended
    /\ runs < MaxRuns
    /\ runs' = runs + 1
    /\ pc' = "load_data"
    /\ df' = NoTable /\ xy' = NoXY /\ parts' = NoParts /\ model' = NoModel
    /\ scores' = NoScores /\ out' = <<>> /\ steps' = <<>>
    /\ fitRows' = {} /\ holdoutReaders' = {}
    /\ UNCHANGED <<file, cache, fitLog, cacheHits, globalRng, pinned, last, nCalls, unit>>

\* between two runs the file at data_path is replaced
DataDump ==
    /\ Ended
    /\ runs < MaxRuns
    /\ \E f \in WfFiles : f # file /\ file' = f
    /\ UNCHANGED <<pc, df, xy, parts, model, scores, out, steps, cache, fitLog,
                   cacheHits, fitRows, holdoutReaders, runs, globalRng, pinned, last,
                   nCalls, unit>>

\* line 132
LoadData ==
    /\ pc = "load_data"
    /\ LET r == load_data(file)
       IN  /\ steps' = Append(steps, Step("load_data", r.ok))
           /\ df' = IF r.ok THEN r.df ELSE df
           /\ pc' = Resume(r.ok, "input_output")
    /\ UNCHANGED <<file, xy, parts, model, scores, out, cache, fitLog, cacheHits, fitRows,
                   holdoutReaders, runs, globalRng, pinned, last, nCalls, unit>>

\* line 135
InputOutput ==
    /\ pc = "input_output"
    /\ LET r == input_output(df, INPUT, OUTPUT)
       IN  /\ steps' = Append(steps, Step("input_output", r.ok))
           /\ xy' = IF r.ok THEN [X |-> r.X, y |-> r.y] ELSE xy
           /\ pc' = Resume(r.ok, "split_train_test")
    /\ UNCHANGED <<file, df, parts, model, scores, out, cache, fitLog, cacheHits, fitRows,
                   holdoutReaders, runs, globalRng, pinned, last, nCalls, unit>>

\* line 138
SplitTrainTest ==
    /\ pc = "split_train_test"
    /\ LET r == split_train_test(xy.X, xy.y, DefaultTestSize, <<DefaultRandomState>>,
                                 globalRng)
       IN  /\ steps' = Append(steps, Step("split_train_test", r.ok))
           /\ parts' = IF r.ok
                       THEN [X_train |-> r.X_train, X_test |-> r.X_test,
                             y_train |-> r.y_train, y_test |-> r.y_test]
                       ELSE parts
           /\ globalRng' = r.rng
           /\ pc' = Resume(r.ok, "train_model")
    /\ UNCHANGED <<file, df, xy, model, scores, out, cache, fitLog, cacheHits, fitRows,
                   holdoutReaders, runs, pinned, last, nCalls, unit>>

\* line 141
TrainModel ==
    /\ pc = "train_model"
    /\ LET in == TrainInput(parts, xy)
           r  == train_model(in.X, in.y, HYPERPARAMETERS, cache)
       IN  /\ steps' = Append(steps, Step("train_model", r.ok))
           /\ model' = IF r.ok THEN r.model ELSE model
           /\ cache' = r.cache
           /\ fitLog' = fitLog \o r.computed
           /\ cacheHits' = cacheHits + r.hits
           /\ fitRows' = fitRows \cup r.rows
           /\ holdoutReaders' = holdoutReaders \cup
                  (IF Labels_(in.X) \cap Labels_(parts.X_test) # {}
                   THEN {"train_model"} ELSE {})
           /\ pc' = Resume(r.ok, "evaluate_model")
    /\ UNCHANGED <<file, df, xy, parts, scores, out, runs, globalRng, pinned, last,
                   nCalls, unit>>

\* line 144
EvaluateModel ==
    /\ pc = "evaluate_model"
    /\ scores' = evaluate_model(model, parts.X_train, parts.y_train,
                                parts.X_test, parts.y_test)
    /\ steps' = Append(steps, Step("evaluate_model", TRUE))
    /\ holdoutReaders' = holdoutReaders \cup {"evaluate_model"}
    /\ pc' = "print_train"
    /\ UNCHANGED <<file, df, xy, parts, model, out, cache, fitLog, cacheHits, fitRows, runs,
                   globalRng, pinned, last, nCalls, unit>>

\* line 146
PrintTrain ==
    /\ pc = "print_train"
    /\ out' = Append(out, <<"Train Score:", scores.train_score>>)
    /\ pc' = "print_test"
    /\ UNCHANGED <<file, df, xy, parts, model, scores, steps, cache, fitLog, cacheHits, fitRows,
                   holdoutReaders, runs, globalRng, pinned, last, nCalls, unit>>

\* line 147
PrintTest ==
    /\ pc = "print_test"
    /\ out' = Append(out, <<"Test Score:", scores.test_score>>)
    /\ pc' = "done"
    /\ UNCHANGED <<file, df, xy, parts, model, scores, steps, cache, fitLog, cacheHits, fitRows,
                   holdoutReaders, runs, globalRng, pinned, last, nCalls, unit>>

InitRun ==
    /\ pc = "idle"
    /\ df = NoTable /\ xy = NoXY /\ parts = NoParts /\ model = NoModel
    /\ scores = NoScores /\ out = <<>> /\ steps = <<>>
    /\ fitRows = {} /\ holdoutReaders = {}
    /\ cache = {} /\ fitLog = <<>> /\ cacheHits = 0 /\ runs = 0
    /\ pinned = NoCall /\ last = NoCall /\ nCalls = 0 /\ unit = NoCall

Init ==
    /\ InitRun
    /\ file \in WfFiles
    /\ globalRng = 1

Next ==
    \/ FlowRun
    \/ DataDump
    \/ LoadData
    \/ InputOutput
    \/ SplitTrainTest
    \/ TrainModel
    \/ EvaluateModel
    \/ PrintTrain
    \/ PrintTest

Spec == Init /\ [][Next]_vars
----------------------------------------------------------------------------
(* load_data on its own *)

InitLoad ==
    /\ InitRun
    /\ file \in LoadFiles \cup {Unreadable}
    /\ globalRng = 1

NextLoad == FlowRun \/ LoadData

SpecLoad == InitLoad /\ [][NextLoad]_vars

----------------------------------------------------------------------------
(* Direct calls of split_train_test *)

SplitInput(n) ==
    [X |-> [i \in 1..n |-> [idx |-> i - 1, v |-> "good"]],
     y |-> [i \in 1..n |-> [idx |-> i - 1, v |-> i % 2]]]

TestSizes == {Float(c) : c \in {0 - 25, 0, 25, 100, 150}}
             \cup {Int_(c) : c \in {0, 1, MaxSplitRows}}

RandomStates == {<<>>, <<DefaultRandomState>>}

\* the generator numpy seeds from the operating system when the process starts
EntropySeeds == {1, 2}

\* what the caller gets: the parts, or the error
Returned(r) ==
    IF r.ok
    THEN [ok |-> TRUE, err |-> r.err, X_train |-> r.X_train, X_test |-> r.X_test,
          y_train |-> r.y_train, y_test |-> r.y_test]
    ELSE [ok |-> FALSE, err |-> r.err]

SplitCall ==
    /\ nCalls < MaxCalls
    /\ \E n \in 0..MaxSplitRows, ts \in TestSizes, rs \in RandomStates :
        LET in  == SplitInput(n)
            r   == split_train_test(in.X, in.y, ts, rs, globalRng)
            rec == [made |-> TRUE, X |-> in.X, y |-> in.y,
                    test_size |-> ts, random_state |-> rs, result |-> Returned(r)]
        IN  /\ last' = rec @@ [again |-> pinned.made]
            \* the first call with a seed is kept, to compare the later ones with
            /\ pinned' = IF ~pinned.made /\ rs # <<>> THEN rec ELSE pinned
            /\ globalRng' = r.rng
            /\ nCalls' = nCalls + 1
    /\ UNCHANGED <<file, pc, df, xy, parts, model, scores, out, steps, cache, fitLog,
                   cacheHits, fitRows, holdoutReaders, runs, unit>>

InitSplit ==
    /\ InitRun
    /\ file = Unreadable
    /\ globalRng \in EntropySeeds

NextSplit == SplitCall

SpecSplit == InitSplit /\ [][NextSplit]_vars

----------------------------------------------------------------------------
(* The flow, and direct calls of train_model between its runs *)

TrainInputs ==
    {[X |-> [i \in 1..n |-> [idx |-> i - 1, v |-> "good"]],
      y |-> [i \in 1..n |-> [idx |-> i - 1, v |-> IF i = 1 THEN first ELSE 1]]] :
        n \in 0..MaxTrainRows, first \in {0, 1}}

\* direct calls are made before the schedule starts its first run
UnitTrain ==
    /\ pc = "idle"
    /\ nCalls < MaxTrainCalls
    /\ \E in \in TrainInputs :
        LET r == train_model(in.X, in.y, HYPERPARAMETERS, cache)
        IN  /\ unit' = [made |-> TRUE, X |-> in.X, y |-> in.y, ok |-> r.ok,
                        model |-> IF r.ok THEN r.model ELSE NoModel]
            /\ cache' = r.cache
            /\ fitLog' = fitLog \o r.computed
            /\ cacheHits' = cacheHits + r.hits
    /\ nCalls' = nCalls + 1
    /\ UNCHANGED <<file, pc, df, xy, parts, model, scores, out, steps, fitRows,
                   holdoutReaders, runs, globalRng, pinned, last>>

\* the file at data_path stays as it is here: DataDump is left out
NextTrain ==
    \/ FlowRun
    \/ LoadData
    \/ InputOutput
    \/ SplitTrainTest
    \/ TrainModel
    \/ EvaluateModel
    \/ PrintTrain
    \/ PrintTest
    \/ UnitTrain

SpecTrain == Init /\ [][NextTrain]_vars
----------------------------------------------------------------------------
(* Properties *)

Completed(i, task) == Len(steps) >= i /\ steps[i] = Step(task, TRUE)

LoadCompleted == Completed(1, "load_data")

RatingsPos == ColPos(df.columns, OUTPUT)
TextPos == ColPos(df.columns, INPUT)

\* the row of the file from which row k of df was read
FileRow(k) == file.data[df.index[k] + 1]

\* C1: the table load_data returns has no missing value in any cell, and none
\* of its column names starts or ends with whitespace or holds a space.
C1_NoMissingCleanNames ==
    LoadCompleted =>
        /\ \A i \in 1..Len(df.data) : \A j \in 1..Len(df.data[i]) :
              df.data[i][j] # NaN /\ df.data[i][j] # Str("")
        /\ \A c \in 1..Len(df.columns) :
              LET nm == df.columns[c]
              IN  /\ nm # <<>> => nm[1] \notin Whitespace /\ nm[Len(nm)] \notin Whitespace
                  /\ \A k \in 1..Len(nm) : nm[k] # " "

\* a file with padded column names and a row with a missing cell was loaded,
\* and some but not all of its rows were kept
C1_Witness ==
    /\ LoadCompleted
    /\ \E c \in 1..Len(file.columns) : file.columns[c][1] \in Whitespace
    /\ \E c \in 1..Len(file.columns) : file.columns[c][Len(file.columns[c])] \in Whitespace
    /\ \E i \in 1..Len(file.data) : file.data[i][1] = NaN
    /\ Len(df.data) >= 2
    /\ Len(df.data) < Len(file.data)

Scenario == <<<<Str("good"), Num(5)>>, <<Str("good"), Num(2)>>, <<NaN, Num(4)>>,
              <<Str("good"), Num(3)>>, <<Str("good"), Num(4)>>>>

DfLabels == [k \in 1..Len(df.data) |-> Val(df.data[k][RatingsPos])]

\* C2: every row load_data keeps carries the label 1 when the rating of the
\* same row of the file is >= 4 and 0 otherwise, keeps its review text, and
\* the kept rows are in the order of the file; ratings 5,2,3,4 and one row
\* with an empty review give the four labels 1,0,0,1.
C2_LabelsFollowRatings ==
    LoadCompleted =>
        /\ \A k \in 1..Len(df.data) :
              LET r == FileRow(k)[RatingsPos]
              IN  /\ df.index[k] \in 0..(Len(file.data) - 1)
                  /\ DfLabels[k] = IF r # NaN /\ Val(r) >= 4 THEN 1 ELSE 0
                  /\ df.data[k][TextPos] = FileRow(k)[TextPos]
        /\ \A k \in 1..(Len(df.data) - 1) : df.index[k] < df.index[k + 1]
        /\ file.data = Scenario => DfLabels = <<1, 0, 0, 1>>

C2_Witness ==
    /\ LoadCompleted
    /\ file.data = Scenario
    /\ DfLabels = <<1, 0, 0, 1>>
    /\ df.index = <<0, 1, 3, 4>>

\* C3: a row of the file whose rating is neither >= 4 nor <= 3 is not in the
\* table load_data returns.
C3_UnlabelledRowsDropped ==
    LoadCompleted =>
        \A i \in 1..Len(file.data) :
            LET r == file.data[i][RatingsPos]
            IN  (~GE(r, 4) /\ ~LE(r, 3)) => (i - 1) \notin Range(df.index)

\* C4: a split that succeeds puts every row of the input in exactly one of
\* the two parts, and keeps the text and the label of a row together.
C4_SplitIsPartition ==
    (last.made /\ last.result.ok) =>
        LET r     == last.result
            train == Labels_(r.X_train)
            test  == Labels_(r.X_test)
        IN  /\ Len(r.X_train) + Len(r.X_test) = Len(last.X)
            /\ Cardinality(train) = Len(r.X_train)
            /\ Cardinality(test) = Len(r.X_test)
            /\ train \cap test = {}
            /\ train \cup test = Labels_(last.X)
            /\ Range(r.X_train) \cup Range(r.X_test) = Range(last.X)
            /\ Range(r.y_train) \cup Range(r.y_test) = Range(last.y)
            /\ Len(r.y_train) = Len(r.X_train) /\ Len(r.y_test) = Len(r.X_test)
            /\ \A k \in 1..Len(r.X_train) : r.X_train[k].idx = r.y_train[k].idx
            /\ \A k \in 1..Len(r.X_test) : r.X_test[k].idx = r.y_test[k].idx

C4_Witness ==
    /\ last.made /\ last.result.ok
    /\ Len(last.X) = MaxSplitRows
    /\ Len(last.result.X_test) >= 1
    /\ Len(last.result.X_train) >= 2

SameCall(a, b) ==
    /\ a.X = b.X /\ a.y = b.y
    /\ a.test_size = b.test_size
    /\ a.random_state = b.random_state

\* C5: two calls of split_train_test with the same input, the same test_size
\* and the same seed return the same parts, whatever was called in between.
C5_SplitIsDeterministic ==
    (pinned.made /\ last.made /\ last.random_state # <<>> /\ SameCall(pinned, last))
        => last.result = pinned.result

\* a seeded call, then a call that advanced the process-wide generator, then
\* the seeded call again
C5_Witness ==
    /\ pinned.made /\ last.made /\ last.again
    /\ last.random_state # <<>>
    /\ SameCall(pinned, last)
    /\ last.result.ok
    /\ Len(last.X) = MaxSplitRows
    /\ globalRng \notin EntropySeeds

\* a test_size that is not strictly between 0 and 1
OutsideUnitInterval(ts) ==
    \/ ts.kind = "f" /\ (ts.c <= 0 \/ ts.c >= 100)
    \/ ts.kind = "i" /\ (ts.c <= 0 \/ ts.c >= 1)

NoPartition(r) ==
    /\ ~r.ok
    /\ r.err = "ValueError"
    /\ DOMAIN r \cap {"X_train", "X_test", "y_train", "y_test"} = {}

\* C6 as stated: every test_size that is not strictly between 0 and 1 makes
\* split_train_test fail with ValueError.
C6_Original ==
    (last.made /\ OutsideUnitInterval(last.test_size)) => NoPartition(last.result)

\* C6 as amended: split_train_test fails with ValueError, and returns no part,
\* for every float test_size that is not strictly between 0 and 1 and for
\* every int test_size that is <= 0 or >= the number of rows.
C6_InvalidTestSizeFails ==
    (last.made /\ \/ last.test_size.kind = "f" /\ OutsideUnitInterval(last.test_size)
                  \/ last.test_size.kind = "i" /\ (last.test_size.c <= 0
                                                   \/ last.test_size.c >= Len(last.X)))
        => NoPartition(last.result)

C6_Witness ==
    /\ last.made
    /\ last.test_size = Float(0)
    /\ Len(last.X) = MaxSplitRows
    /\ NoPartition(last.result)

\* C7: the tasks of a run start in the order of the flow, each at most once;
\* a task that fails is the last one of the run and the run prints nothing;
\* the two scores are printed exactly when all five tasks completed.
C7_AllOrNothing ==
    /\ Len(steps) <= Len(Order)
    /\ \A i \in 1..Len(steps) : steps[i].task = Order[i]
    /\ \A i \in 1..Len(steps) :
          steps[i].state = "Failed" => (i = Len(steps) /\ pc = "failed" /\ out = <<>>)
    /\ pc = "failed" => (steps # <<>> /\ steps[Len(steps)].state = "Failed")
    /\ out # <<>> => \A i \in 1..Len(Order) : Completed(i, Order[i])
    /\ pc = "done" <=> Len(out) = 2
    /\ Len(out) <= 2

C7_Witness ==
    /\ pc = "failed"
    /\ Len(steps) = 4
    /\ steps[4] = Step("train_model", FALSE)
    /\ runs = MaxRuns

\* C8: train_model given no rows fails and returns no model; a run whose
\* loaded table has no row prints nothing, fits no model and fails before
\* train_model, and no run fits a model on an empty training part.
C8_EmptyTrainingFails ==
    /\ (unit.made /\ Len(unit.X) = 0) => (~unit.ok /\ ~unit.model.fitted)
    /\ (LoadCompleted /\ Len(df.data) = 0) =>
          (out = <<>> /\ ~model.fitted
           /\ pc \in {"input_output", "split_train_test", "failed"})
    /\ model.fitted => Len(parts.X_train) > 0

C8_Witness ==
    /\ unit.made /\ Len(unit.X) = 0 /\ ~unit.ok
    /\ LoadCompleted /\ Len(df.data) = 0 /\ Len(file.data) > 0
    /\ pc = "failed"

C10_HoldoutNeverFitted ==
    /\ fitRows \subseteq Labels_(parts.X_train)
    /\ fitRows \cap Labels_(parts.X_test) = {}
    /\ model.fitted => model.rows \subseteq Labels_(parts.X_train)
    /\ holdoutReaders \subseteq {"evaluate_model"}
    /\ "evaluate_model" \in holdoutReaders =>
          (Completed(4, "train_model") /\ Len(steps) = 5)

C10_Witness ==
    /\ pc = "done"
    /\ fitRows # {}
    /\ parts.X_test # <<>>
    /\ holdoutReaders = {"evaluate_model"}
====
